---- MODULE Spec2Model ----
(***************************************************************************)
(* Grain128AEAD (src/Grain128AEAD/grain128AED.py) and the decrypt_and_     *)
(* verify entry points of the GrainSoft variants, as state machines.       *)
(*                                                                         *)
(* A 128-bit Python integer is the sequence of its 128 bits, bit i at      *)
(* index i + 1.  A bytes object is a sequence of integers 0..255.          *)
(***************************************************************************)
EXTENDS Integers, Sequences, FiniteSets, TLC

\* ------------------------------------------------------------------- bits
Zero128 == [k \in 1..128 |-> 0]

\* (r >> i) & 1
Bit(r, i) == r[i + 1]

\* (byte >> j) & 1
ByteBit(byte, j) == (byte \div (2 ^ j)) % 2

\* a ^ b and a | b on two integers of the same width
Xor128(a, b) == [k \in 1..Len(a) |-> (a[k] + b[k]) % 2]
Or128(a, b) == [k \in 1..Len(a) |-> IF a[k] = 1 \/ b[k] = 1 THEN 1 ELSE 0]

\* ((r >> 1) | (fb << 127)) & mask
ShiftRightIn(r, fb) == Append(Tail(r), fb)

\* ((r << 1) | b) & mask
\* ShiftLeftInNoMask is the faulty shift that forgets the mask.
ShiftLeftInNoMask(r, b) == <<b>> \o r
ShiftLeftIn(r, b) == <<b>> \o SubSeq(r, 1, 127)

\* sum(bits at taps) % 2
Parity(r, taps) == Cardinality({t \in taps : Bit(r, t) = 1}) % 2

\* --------------------------------------------------------------- tap sets
LfsrFbTaps == {0, 31, 46, 57, 89, 120, 127}
NfsrFbTaps == {0, 17, 19, 27, 34, 42, 46, 64, 70, 79, 87, 95, 99, 103, 106, 117, 121}
nonlinear_pairs ==
  { <<0, 9>>, <<14, 15>>, <<21, 23>>, <<24, 25>>, <<36, 37>>, <<40, 41>>, <<48, 49>>,
    <<50, 51>>, <<52, 53>>, <<55, 56>>, <<57, 59>>, <<60, 61>>, <<66, 68>>, <<69, 70>>,
    <<72, 73>>, <<74, 75>>, <<76, 77>>, <<78, 79>>, <<82, 83>>, <<84, 85>>, <<86, 87>>,
    <<91, 92>>, <<93, 94>>, <<95, 97>>, <<98, 99>>, <<101, 102>>, <<103, 105>>,
    <<106, 108>>, <<109, 110>>, <<111, 112>>, <<113, 114>>, <<115, 116>>, <<117, 119>> }
PreLfsrTaps == {8, 43, 55, 67, 68}
PreNfsrTaps == {5, 33, 67, 85}

\* ------------------------------------------------------ nonlinear combiner
compute_h(lfsr, nfsr) ==
  LET x0 == Bit(lfsr, 2)
      x1 == Bit(lfsr, 11)
      x2 == Bit(lfsr, 20)
      x3 == Bit(lfsr, 29)
      x4 == Bit(lfsr, 38)
      x5 == Bit(lfsr, 47)
      x6 == Bit(lfsr, 56)
      x7 == Bit(lfsr, 65)
      x8 == Bit(nfsr, 63)
      x9 == Bit(nfsr, 95)
  IN  (x0*x1 + x2*x3 + x4*x5 + x6*x7 + x8*x9
       + x0*x4*x8 + x1*x5*x9 + x2*x6*x8 + x3*x7*x9 + x4*x5*x6*x7) % 2

get_pre_output(lfsr, nfsr) ==
  (compute_h(lfsr, nfsr) + Parity(lfsr, PreLfsrTaps) + Parity(nfsr, PreNfsrTaps)) % 2

\* ------------------------------------------------------------ register core
\* Grain128AEAD._clock on object o (a record of the attributes lfsr, nfsr, sr,
\* accum, skip = "_skip_auth is present", and of the locals of the running
\* call): the object after the clock, and the returned ks_bit
\* clockPreShiftOutput is the faulty clock that reads NFSR bit 0 for the
\* output before the shift.
clockPreShiftOutput(o, init) ==
  LET lfsr_fb == Parity(o.lfsr, LfsrFbTaps)
      nfsr_fb == (Parity(o.nfsr, NfsrFbTaps)
                  + Cardinality({p \in nonlinear_pairs :
                                   Bit(o.nfsr, p[1]) = 1 /\ Bit(o.nfsr, p[2]) = 1})
                  + Bit(o.lfsr, 0)) % 2
      l2 == ShiftRightIn(o.lfsr, lfsr_fb)
      n2 == ShiftRightIn(o.nfsr, nfsr_fb)
      ks_bit == (compute_h(l2, n2) + Bit(o.nfsr, 0)) % 2
      s2 == IF ~init /\ ~o.skip
              THEN ShiftLeftIn(o.sr, get_pre_output(l2, n2))
              ELSE o.sr
  IN  [obj |-> [o EXCEPT !.lfsr = l2, !.nfsr = n2, !.sr = s2], ks |-> ks_bit]
clock(o, init) ==
  LET lfsr_fb == Parity(o.lfsr, LfsrFbTaps)
      nfsr_fb == (Parity(o.nfsr, NfsrFbTaps)
                  + Cardinality({p \in nonlinear_pairs :
                                   Bit(o.nfsr, p[1]) = 1 /\ Bit(o.nfsr, p[2]) = 1})
                  + Bit(o.lfsr, 0)) % 2
      l2 == ShiftRightIn(o.lfsr, lfsr_fb)
      n2 == ShiftRightIn(o.nfsr, nfsr_fb)
      ks_bit == (compute_h(l2, n2) + Bit(n2, 0)) % 2
      s2 == IF ~init /\ ~o.skip
              THEN ShiftLeftIn(o.sr, get_pre_output(l2, n2))
              ELSE o.sr
  IN  [obj |-> [o EXCEPT !.lfsr = l2, !.nfsr = n2, !.sr = s2], ks |-> ks_bit]

\* one iteration i of the 320-round loop of Grain128AEAD.initialize
\* InitRoundSrFromStart is the faulty round that shifts into sr from round 0.
InitRoundSrFromStart(o, i) ==
  LET c == clock(o, TRUE)
      l3 == ShiftLeftIn(c.obj.lfsr, c.ks)
      n3 == ShiftLeftIn(c.obj.nfsr, c.ks)
  IN  [o EXCEPT !.lfsr = l3, !.nfsr = n3,
                !.sr = ShiftLeftIn(o.sr, get_pre_output(l3, n3))]
\* InitRoundNoShiftBack is the faulty round that forgets lines 35-36: the
\* registers stay as the clock leaves them.
InitRoundNoShiftBack(o, i) ==
  LET c == clock(o, TRUE)
      s3 == IF i >= 192 THEN ShiftLeftIn(o.sr, get_pre_output(c.obj.lfsr, c.obj.nfsr))
                        ELSE o.sr
  IN  [c.obj EXCEPT !.sr = s3]
InitRound(o, i) ==
  LET c == clock(o, TRUE)
      l3 == ShiftLeftIn(c.obj.lfsr, c.ks)
      n3 == ShiftLeftIn(c.obj.nfsr, c.ks)
      s3 == IF i >= 192 THEN ShiftLeftIn(o.sr, get_pre_output(l3, n3)) ELSE o.sr
  IN  [o EXCEPT !.lfsr = l3, !.nfsr = n3, !.sr = s3]

\* the IV loop, the padding and the key loop of Grain128AEAD.initialize
LoadRegisters(o, k, v) ==
  LET ivbits == [n \in 1..128 |-> IF n <= 96 THEN ByteBit(v[((n - 1) \div 8) + 1], (n - 1) % 8)
                                             ELSE 0]
      \* ((1 << 31) - 1) << 96
      padding == [n \in 1..128 |-> IF n - 1 >= 96 /\ n - 1 < 96 + 31 THEN 1 ELSE 0]
      keybits == [n \in 1..128 |-> ByteBit(k[((n - 1) \div 8) + 1], (n - 1) % 8)]
  IN  [o EXCEPT !.lfsr = Or128(Or128(o.lfsr, ivbits), padding),
                !.nfsr = Or128(o.nfsr, keybits)]

\* ----------------------------------------------------------- byte helpers
\* a ^ b on two bytes
XorByte(a, b) ==
  LET d(k) == (ByteBit(a, k) + ByteBit(b, k)) % 2
  IN  d(0) + 2*d(1) + 4*d(2) + 8*d(3) + 16*d(4) + 32*d(5) + 64*d(6) + 128*d(7)

\* bytes(a ^ b for a, b in zip(x, y))
XorBytes(x, y) ==
  [k \in 1..(IF Len(x) < Len(y) THEN Len(x) ELSE Len(y)) |-> XorByte(x[k], y[k])]

\* the bytes object b with bit n flipped (bit n % 8 of byte n // 8)
FlipBit(b, n) ==
  [k \in 1..Len(b) |-> IF k = (n \div 8) + 1 THEN XorByte(b[k], 2 ^ (n % 8)) ELSE b[k]]

\* struct.pack('<Q', tag_bits & ((1 << 64) - 1)): byte k holds bits 8k .. 8k+7
\* Pack32 is the faulty packing '<I', which keeps four bytes.
Pack32(t) ==
  [k \in 1..4 |->
     LET b(j) == t[8 * (k - 1) + j + 1]
     IN  b(0) + 2*b(1) + 4*b(2) + 8*b(3) + 16*b(4) + 32*b(5) + 64*b(6) + 128*b(7)]
Pack64(t) ==
  [k \in 1..8 |->
     LET b(j) == t[8 * (k - 1) + j + 1]
     IN  b(0) + 2*b(1) + 4*b(2) + 8*b(3) + 16*b(4) + 32*b(5) + 64*b(6) + 128*b(7)]

Zero64 == [k \in 1..64 |-> 0]

\* tag_bits |= (bit << i)
OrTagBit(t, bit, i) ==
  [k \in 1..64 |-> IF k = i + 1 /\ bit = 1 THEN 1 ELSE t[k]]

\* ------------------------------------------------------------------ inputs
\* b'16_byte_key_1234' (grain_server_automate.py:14) and a second key
K0 == <<49, 54, 95, 98, 121, 116, 101, 95, 107, 101, 121, 95, 49, 50, 51, 52>>
K1 == <<0, 1, 2, 3, 4, 5, 6, 7, 8, 9, 10, 11, 12, 13, 14, 15>>
\* b'12_byte_iv_1' (grain_server_automate.py:15)
IV0 == <<49, 50, 95, 98, 121, 116, 101, 95, 105, 118, 95, 49>>
\* b'12_byte_iv_123', the 14-byte IV of the demo (grain128AED.py:148)
IVDemo == <<49, 50, 95, 98, 121, 116, 101, 95, 105, 118, 95, 49, 50, 51>>
\* a 15-byte key
KShort == <<49, 54, 95, 98, 121, 116, 101, 95, 107, 101, 121, 95, 49, 50, 51>>

\* the IV bits in which two instances may differ (bit n is bit n % 8 of IV
\* byte n // 8)
IVFlips == {0, 13}

\* the key bits in which the key of a second instance differs: a flip f >= 96
\* stands for key bit f - 96, a flip f < 96 for IV bit f
KeyFlips == {96}

KeyInputs == {K0, K1, KShort}
IVInputs == {IV0, IVDemo}

\* longest plaintext and longest associated data, in bytes
MaxLen == 1
MaxAdLen == 1
\* byte values plaintexts and associated data are made of
ByteVals == {165}

RECURSIVE BytesUpTo(_)
BytesUpTo(n) ==
  IF n = 0 THEN {<<>>}
  ELSE LET S == BytesUpTo(n - 1)
       IN  S \cup {Append(b, v) : b \in {x \in S : Len(x) = n - 1}, v \in ByteVals}

Msgs == BytesUpTo(MaxLen)
ADs == BytesUpTo(MaxAdLen)

\* bit positions at which a caller tampers with a ciphertext or with
\* associated data (only positions the bytes object has are flipped)
TamperBits == {0, 7}
Tampered(b) == {FlipBit(b, n) : n \in {m \in TamperBits : m < 8 * Len(b)}}

\* ------------------------------------------------------------------- state
\* Three objects run every call side by side: "cipher", the long-lived
\* instance (the demo and grain_server.py keep one); "fresh", an instance
\* built from the same key and IV right before the call (as
\* grain_server_automate.py builds one before every operation); and "other",
\* a long-lived instance whose IV, or whose key, differs from that of "cipher"
\* in one bit.
Objs == {"cipher", "fresh", "other"}
Ops == {"encrypt", "decrypt", "get_tag"}

\* calls one behaviour makes
MaxCalls == 2
\* calls one behaviour makes on a GrainSoft variant: enough for one call to
\* follow two earlier ones on the same instance
MaxSoftCalls == 3

VARIABLES
  ctor,      \* the (key, iv) arguments of the last constructor call
  key,       \* self.key, <<>> while no instance exists
  iv,        \* self.iv
  pc,        \* "new", "error", "init", "ad", "data", "final", "idle"
  op,        \* the method that is running or ran last ("__init__" or one of Ops)
  ad,        \* its associated_data argument
  data,      \* its plaintext / ciphertext argument
  i,         \* index of the running loop (round, bit or finalization clock)
  obj,       \* the attributes and the call's locals, per object
  ret,       \* what the last call returned, per object
  enc,       \* the caller's record of its last encrypt call (with the accum it left)
  pristine,  \* the attributes of "cipher" as the constructor left them
  flip,      \* the bit in which "other" differs from "cipher": IV bit flip, or
             \* key bit flip - 96 when flip >= 96
  ncalls     \* calls made so far

vars == <<ctor, key, iv, pc, op, ad, data, i, obj, ret, enc, pristine, flip, ncalls>>

\* The variants of src/ (GrainSoftHMAC.py, GrainSoft_v2.py, grainsoft_v3.py)
\* are a second machine: one instance of one variant's class GrainSoft128AEAD
\* and the caller that drives it.
VARIABLES
  variant,   \* the module the instance comes from, "none" before construction
  soft,      \* the attributes of the instance
  vpc,       \* "new", "error", "init", "ks", "idle"
  vop,       \* the method that is running or ran last
  varg,      \* its arguments
  vi,        \* index of the running loop (warm-up round or keystream bit)
  vloc,      \* the locals of _generate_keystream
  vres,      \* how the last call ended: exception, warning, returned values
  vsent,     \* the caller's record of its last encrypt_and_tag that returned
  vcalls     \* calls made so far

svars == <<variant, soft, vpc, vop, varg, vi, vloc, vres, vsent, vcalls>>

\* The threaded servers (grain_server_automate.py, server.py) are a third
\* machine: the accept loop, the handler threads it starts, and the cipher
\* instances on the heap.  An instance is deterministic, so its registers are
\* given by the number of clocks since it was initialized.
VARIABLES
  srv,       \* the server class that runs, "none" before its constructor
  hpc,       \* per handler thread: "none" (not started), "recv", "op", "closed"
  hcipher,   \* per handler thread: its local variable cipher, 0 while unbound
  hleft,     \* per handler thread: clocks its running operation still has to make
  heap       \* the cipher instances constructed so far, each with its clock
             \* count and the threads that have read or written its registers

tvars == <<srv, hpc, hcipher, hleft, heap>>

\* the handler threads one behaviour starts
Handlers == {1, 2}

\* the key and the IV of the instance that differs in bit f
OtherKey(k, f) == IF f >= 96 THEN FlipBit(k, f - 96) ELSE k
OtherIV(v, f) == IF f < 96 THEN FlipBit(v, f) ELSE v

\* self.key and self.iv of object x
KeyOf(x) == IF x = "other" THEN OtherKey(key, flip) ELSE key
IVOf(x) == IF x = "other" THEN OtherIV(iv, flip) ELSE iv

ZeroObj ==
  [lfsr |-> Zero128, nfsr |-> Zero128, sr |-> Zero128, accum |-> Zero128,
   skip |-> FALSE, ks_bytes |-> <<>>, byte |-> 0, out |-> <<>>, tag_bits |-> Zero64]

NoRet == [out |-> <<>>, tag |-> <<>>]
NoEnc == [set |-> FALSE, key |-> <<>>, iv |-> <<>>, p |-> <<>>, ad |-> <<>>,
          c |-> <<>>, t |-> <<>>, accum |-> Zero128]

\* the variant instance before construction, and the empty records of its caller
NoSoft == [key |-> <<>>, iv |-> <<>>, lfsr |-> Zero128, nfsr |-> Zero128,
           ks |-> <<>>, used_ivs |-> {}]
NoArg == [data |-> <<>>, tag |-> <<>>, mac_key |-> <<>>, ad |-> <<>>]
NoLoc == [byte |-> 0, keystream |-> <<>>]
NoRes == [raised |-> "none", warned |-> FALSE, ret |-> <<>>]
NoSent == [set |-> FALSE, p |-> <<>>, c |-> <<>>, t |-> <<>>, mac_key |-> <<>>,
           ad |-> <<>>]

Init ==
  /\ ctor = <<K0, IV0>>
  /\ key = <<>> /\ iv = <<>> /\ pc = "new" /\ op = "none"
  /\ ad = <<>> /\ data = <<>> /\ i = 0
  /\ obj = [x \in Objs |-> ZeroObj]
  /\ ret = [x \in Objs |-> NoRet]
  /\ enc = NoEnc
  /\ pristine = ZeroObj
  /\ flip = 0
  /\ ncalls = 0
  /\ variant = "none"
  /\ soft = NoSoft
  /\ vpc = "new" /\ vop = "none"
  /\ varg = NoArg
  /\ vi = 0
  /\ vloc = NoLoc
  /\ vres = NoRes
  /\ vsent = NoSent
  /\ vcalls = 0
  /\ srv = "none"
  /\ hpc = [t \in Handlers |-> "none"]
  /\ hcipher = [t \in Handlers |-> 0]
  /\ hleft = [t \in Handlers |-> 0]
  /\ heap = <<>>

\* ------------------------------------------------------------- constructor
\* the length checks of __init__
\* CtorRaisesKeyOnly is the faulty check that forgets the IV.
CtorRaisesKeyOnly(k, v) == Len(k) # 16
CtorRaises(k, v) == Len(k) # 16 \/ Len(v) # 12

\* lines 12-15 of __init__ and lines 19-22 of reset
\* The two faulty resets leave the registers, or the accumulator, as they were.
ResetFieldsKeepRegisters(o) ==
  [o EXCEPT !.accum = Zero128, !.sr = Zero128]
ResetFieldsKeepAccum(o) ==
  [o EXCEPT !.lfsr = Zero128, !.nfsr = Zero128, !.sr = Zero128]
ResetFields(o) ==
  [o EXCEPT !.lfsr = Zero128, !.nfsr = Zero128, !.accum = Zero128, !.sr = Zero128]

\* Grain128AEAD(k, v): a ValueError leaves no object; otherwise the attributes
\* are assigned, the registers loaded, and the 320 rounds of initialize follow
Construct(k, v, f) ==
  /\ pc \in {"new", "error"}
  /\ ctor' = <<k, v>>
  /\ op' = "__init__" /\ flip' = f
  /\ ad' = <<>> /\ data' = <<>> /\ i' = 0
  /\ ret' = [x \in Objs |-> NoRet]
  /\ pristine' = ZeroObj
  /\ UNCHANGED <<svars, tvars>>
  /\ UNCHANGED <<enc, ncalls>>
  /\ IF CtorRaises(k, v)
       THEN /\ pc' = "error"
            /\ key' = <<>> /\ iv' = <<>>
            /\ obj' = [x \in Objs |-> ZeroObj]
       ELSE /\ pc' = "init"
            /\ key' = k /\ iv' = v
            /\ obj' = [x \in Objs |->
                         IF x = "cipher" THEN LoadRegisters(ResetFields(ZeroObj), k, v)
                         ELSE IF x = "other"
                           THEN LoadRegisters(ResetFields(ZeroObj), OtherKey(k, f), OtherIV(v, f))
                           ELSE ZeroObj]

\* Grain128AEAD.reset
reset(o, k, v) == LoadRegisters(ResetFields(o), k, v)

\* the objects a step of the running method works on
Running(x) == x # "fresh" \/ op # "__init__"

\* one round of the loop of initialize
InitStep ==
  /\ pc = "init" /\ i < 320
  /\ obj' = [x \in Objs |-> IF Running(x) THEN InitRound(obj[x], i) ELSE obj[x]]
  /\ i' = i + 1
  /\ UNCHANGED <<svars, tvars>>
  /\ UNCHANGED <<ctor, key, iv, pc, op, ad, data, ret, enc, pristine, flip, ncalls>>

\* initialize returns: to the caller of the constructor, or into the AD loop
InitDone ==
  /\ pc = "init" /\ i = 320
  /\ i' = 0
  /\ IF op = "__init__"
       THEN pc' = "idle" /\ pristine' = obj["cipher"]
       ELSE pc' = "ad" /\ pristine' = pristine
  /\ UNCHANGED <<svars, tvars>>
  /\ UNCHANGED <<ctor, key, iv, op, ad, data, obj, ret, enc, flip, ncalls>>

\* ------------------------------------------------------------------- calls
\* the (data, associated data) a caller passes to decrypt and get_tag: the
\* ciphertext its last encrypt returned and the associated data of that call,
\* as they are or with one bit of one of them flipped
VerifyInputs ==
  IF enc.set
    THEN {<<enc.c, enc.ad>>} \cup {<<c, enc.ad>> : c \in Tampered(enc.c)}
                             \cup {<<enc.c, a>> : a \in Tampered(enc.ad)}
    ELSE {}

\* encrypt / decrypt / get_tag are entered: self.reset()
\* CallNoReset is the faulty entry that skips the reset.
CallNoReset(o, d, a) ==
  /\ pc = "idle" /\ ncalls < MaxCalls
  /\ op' = o /\ data' = d /\ ad' = a
  /\ pc' = "ad" /\ i' = 0
  /\ ncalls' = ncalls + 1
  /\ ret' = [x \in Objs |-> NoRet]
  /\ UNCHANGED <<svars, tvars>>
  /\ UNCHANGED <<ctor, key, iv, obj, enc, pristine, flip>>
Call(o, d, a) ==
  /\ pc = "idle" /\ ncalls < MaxCalls
  /\ op' = o /\ data' = d /\ ad' = a
  /\ obj' = [x \in Objs |->
               reset(IF x = "fresh" THEN pristine ELSE obj[x], KeyOf(x), IVOf(x))]
  /\ pc' = "init" /\ i' = 0
  /\ ncalls' = ncalls + 1
  /\ ret' = [x \in Objs |-> NoRet]
  /\ UNCHANGED <<svars, tvars>>
  /\ UNCHANGED <<ctor, key, iv, enc, pristine, flip>>

\* the body of the loops over associated data (and over the data in get_tag)
\* AbsorbBitXorAfter is the faulty body that clocks first and XORs afterwards.
AbsorbBitXorAfter(o, bit) ==
  LET c == clock(o, FALSE).obj
  IN  IF bit = 1 THEN [c EXCEPT !.accum = Xor128(c.accum, c.sr)] ELSE c
\* AbsorbBitClockIfSet is the faulty body that clocks only on a set bit.
AbsorbBitClockIfSet(o, bit) ==
  IF bit = 1 THEN clock([o EXCEPT !.accum = Xor128(o.accum, o.sr)], FALSE).obj ELSE o
AbsorbBit(o, bit) ==
  clock(IF bit = 1 THEN [o EXCEPT !.accum = Xor128(o.accum, o.sr)] ELSE o, FALSE).obj

\* the body of the inner loop of _generate_keystream, for bit j of byte a
\* KeystreamBitMsbFirst is the faulty body that takes the bits of a byte most
\* significant first.
KeystreamBitMsbFirst(o, a, j) ==
  LET c == clock(o, FALSE)
      byte == 2 * o.byte + c.ks
      acc == IF ByteBit(a, 7 - j) = 1 THEN Xor128(c.obj.accum, c.obj.sr) ELSE c.obj.accum
  IN  [c.obj EXCEPT !.accum = acc,
                    !.byte = IF j = 7 THEN 0 ELSE byte,
                    !.ks_bytes = IF j = 7 THEN Append(o.ks_bytes, byte) ELSE o.ks_bytes]
KeystreamBit(o, a, j) ==
  LET c == clock(o, FALSE)
      byte == 2 * o.byte + c.ks
      acc == IF ByteBit(a, j) = 1 THEN Xor128(c.obj.accum, c.obj.sr) ELSE c.obj.accum
  IN  [c.obj EXCEPT !.accum = acc,
                    !.byte = IF j = 7 THEN 0 ELSE byte,
                    !.ks_bytes = IF j = 7 THEN Append(o.ks_bytes, byte) ELSE o.ks_bytes]

AdStep ==
  /\ pc = "ad" /\ i < 8 * Len(ad)
  /\ obj' = [x \in Objs |-> AbsorbBit(obj[x], ByteBit(ad[(i \div 8) + 1], i % 8))]
  /\ i' = i + 1
  /\ UNCHANGED <<svars, tvars>>
  /\ UNCHANGED <<ctor, key, iv, pc, op, ad, data, ret, enc, pristine, flip, ncalls>>

AdDone ==
  /\ pc = "ad" /\ i = 8 * Len(ad)
  /\ pc' = "data" /\ i' = 0
  /\ UNCHANGED <<svars, tvars>>
  /\ UNCHANGED <<ctor, key, iv, op, ad, data, obj, ret, enc, pristine, flip, ncalls>>

DataStep ==
  /\ pc = "data" /\ i < 8 * Len(data)
  /\ obj' = [x \in Objs |->
               IF op = "get_tag"
                 THEN AbsorbBit(obj[x], ByteBit(data[(i \div 8) + 1], i % 8))
                 ELSE KeystreamBit(obj[x], data[(i \div 8) + 1], i % 8)]
  /\ i' = i + 1
  /\ UNCHANGED <<svars, tvars>>
  /\ UNCHANGED <<ctor, key, iv, pc, op, ad, data, ret, enc, pristine, flip, ncalls>>

\* the keystream is XORed into the data; _finalize is entered
\* BeginFinalizeNoSkip is the faulty _finalize that does not set _skip_auth.
BeginFinalizeNoSkip(o) ==
  [o EXCEPT !.out = IF op = "get_tag" THEN <<>> ELSE XorBytes(data, o.ks_bytes),
            !.skip = FALSE, !.tag_bits = Zero64]
\* BeginFinalizeNoXor is the faulty method that returns the keystream itself.
BeginFinalizeNoXor(o) ==
  [o EXCEPT !.out = IF op = "get_tag" THEN <<>> ELSE o.ks_bytes,
            !.skip = TRUE, !.tag_bits = Zero64]
BeginFinalize(o) ==
  [o EXCEPT !.out = IF op = "get_tag" THEN <<>> ELSE XorBytes(data, o.ks_bytes),
            !.skip = TRUE, !.tag_bits = Zero64]

DataDone ==
  /\ pc = "data" /\ i = 8 * Len(data)
  /\ obj' = [x \in Objs |-> BeginFinalize(obj[x])]
  /\ pc' = "final" /\ i' = 0
  /\ UNCHANGED <<svars, tvars>>
  /\ UNCHANGED <<ctor, key, iv, op, ad, data, ret, enc, pristine, flip, ncalls>>

\* the body of the loop of _finalize
\* FinalizeBitFromAccum is the faulty body that takes tag bit n from accum.
FinalizeBitFromAccum(o, n) ==
  LET c == clock(o, FALSE)
      acc == IF c.ks = 1 THEN Xor128(c.obj.accum, c.obj.sr) ELSE c.obj.accum
  IN  [c.obj EXCEPT !.accum = acc,
                    !.tag_bits = OrTagBit(o.tag_bits, Bit(acc, n), n)]
FinalizeBit(o, n) ==
  LET c == clock(o, FALSE)
  IN  [c.obj EXCEPT !.accum = IF c.ks = 1 THEN Xor128(c.obj.accum, c.obj.sr)
                                           ELSE c.obj.accum,
                    !.tag_bits = OrTagBit(o.tag_bits, c.ks, n)]

FinalStep ==
  /\ pc = "final" /\ i < 64
  /\ obj' = [x \in Objs |-> FinalizeBit(obj[x], i)]
  /\ i' = i + 1
  /\ UNCHANGED <<svars, tvars>>
  /\ UNCHANGED <<ctor, key, iv, pc, op, ad, data, ret, enc, pristine, flip, ncalls>>

\* what the method returns
Result(o) == [out |-> o.out, tag |-> Pack64(o.tag_bits)]

\* _finalize deletes _skip_auth and returns; the locals of the call are gone
\* EndCallKeepSkip is the faulty return that leaves _skip_auth set.
EndCallKeepSkip(o) ==
  [o EXCEPT !.ks_bytes = <<>>, !.byte = 0, !.out = <<>>, !.tag_bits = Zero64]
EndCall(o) ==
  [o EXCEPT !.skip = FALSE, !.ks_bytes = <<>>, !.byte = 0, !.out = <<>>,
            !.tag_bits = Zero64]

Return ==
  /\ pc = "final" /\ i = 64
  /\ ret' = [x \in Objs |-> Result(obj[x])]
  /\ obj' = [x \in Objs |-> EndCall(obj[x])]
  /\ enc' = IF op = "encrypt"
              THEN [set |-> TRUE, key |-> key, iv |-> iv, p |-> data, ad |-> ad,
                    c |-> obj["cipher"].out, t |-> Pack64(obj["cipher"].tag_bits),
                    accum |-> obj["cipher"].accum]
              ELSE enc
  /\ pc' = "idle" /\ i' = 0
  /\ UNCHANGED <<svars, tvars>>
  /\ UNCHANGED <<ctor, key, iv, op, ad, data, pristine, flip, ncalls>>

Next ==
  \/ \E k \in KeyInputs, v \in IVInputs, f \in IVFlips \cup KeyFlips : Construct(k, v, f)
  \/ InitStep
  \/ InitDone
  \/ \E d \in Msgs, a \in ADs : Call("encrypt", d, a)
  \/ \E o \in {"decrypt", "get_tag"}, da \in VerifyInputs : Call(o, da[1], da[2])
  \/ AdStep
  \/ AdDone
  \/ DataStep
  \/ DataDone
  \/ FinalStep
  \/ Return

Spec == Init /\ [][Next]_<<vars, svars, tvars>>

\* ------------------------------------------- the GrainSoft128AEAD variants
\* GrainSoftHMAC.py ("HMAC"), GrainSoft_v2.py ("v2") and grainsoft_v3.py
\* ("v3") each define a class GrainSoft128AEAD.  The first two keep lfsr and
\* nfsr as 128-bit integers; v3 keeps them as lists of 128 bits, modelled by
\* the same sequences (list index k is bit k).
Variants == {"HMAC", "v2", "v3"}

\* (b[i // 8] >> (7 - (i % 8))) & 1, the bit order of all three variants
MsbBit(b, n) == ByteBit(b[(n \div 8) + 1], 7 - (n % 8))

\* XOR of single bits
X2(a, b) == (a + b) % 2

\* _clock of GrainSoftHMAC.py and GrainSoft_v2.py: the registers after the
\* clock, and the returned keystream bit
SoftClock(v, o) ==
  LET lfsr_0 == Bit(o.lfsr, 0)
      lfsr_fb == (lfsr_0 + Bit(o.lfsr, 7) + Bit(o.lfsr, 20) + Bit(o.lfsr, 42)
                  + Bit(o.lfsr, 57) + Bit(o.lfsr, 91)) % 2
      nfsr_0 == Bit(o.nfsr, 0)
      nfsr_fb == (nfsr_0 + Bit(o.nfsr, 63) + Bit(o.nfsr, 95)
                  + Bit(o.nfsr, 11) * Bit(o.nfsr, 13)
                  + Bit(o.nfsr, 23) * Bit(o.nfsr, 25)
                  + Bit(o.nfsr, 47) * Bit(o.nfsr, 49)
                  + lfsr_0) % 2
      l2 == ShiftRightIn(o.lfsr, lfsr_fb)
      n2 == ShiftRightIn(o.nfsr, nfsr_fb)
      h == (Bit(l2, 3) + Bit(n2, 2) + Bit(l2, 64) * Bit(n2, 63) + Bit(n2, 25)
            + Bit(n2, 46) + Bit(l2, 93)
            + (IF v = "v2" THEN Bit(l2, 10) * Bit(n2, 20) ELSE 0)) % 2
      ks_bit == X2(h, nfsr_0)
  IN  [obj |-> [o EXCEPT !.lfsr = l2, !.nfsr = n2,
                         !.ks = IF v = "HMAC" THEN Append(o.ks, ks_bit) ELSE o.ks],
       ks |-> ks_bit]

\* one round of the keystream loop of grainsoft_v3.py (also the body of its
\* warm-up loop): the registers after the round, and the keystream bit z
V3Round(o) ==
  LET z == (Bit(o.nfsr, 2) + Bit(o.nfsr, 15) + Bit(o.nfsr, 36) + Bit(o.nfsr, 45)
            + Bit(o.nfsr, 64) + Bit(o.nfsr, 73) + Bit(o.nfsr, 89) + Bit(o.nfsr, 95)
            + Bit(o.lfsr, 93) + Bit(o.lfsr, 0) * Bit(o.nfsr, 0)) % 2
      nonlinear == X2(Bit(o.nfsr, 3) * Bit(o.nfsr, 67), Bit(o.nfsr, 11) * Bit(o.lfsr, 13))
      nfsr_fb == (Bit(o.nfsr, 0) + Bit(o.nfsr, 26) + Bit(o.nfsr, 56) + Bit(o.nfsr, 91)
                  + Bit(o.nfsr, 96) + z + nonlinear) % 2
      lfsr_fb == (Bit(o.lfsr, 0) + Bit(o.lfsr, 7) + Bit(o.lfsr, 38) + Bit(o.lfsr, 70)
                  + Bit(o.lfsr, 81) + Bit(o.lfsr, 96)) % 2
  IN  [obj |-> [o EXCEPT !.nfsr = Append(Tail(o.nfsr), X2(nfsr_fb, Bit(o.lfsr, 0))),
                         !.lfsr = Append(Tail(o.lfsr), lfsr_fb)],
       ks |-> z]

\* the number of warm-up rounds of _initialize
SoftRounds(v) == IF v = "v3" THEN 320 ELSE 256

\* round n of the warm-up loop of _initialize
SoftInitRound(v, o, k, n) ==
  IF v = "v3" THEN V3Round(o).obj
  ELSE LET c == SoftClock(v, o)
           b == IF v = "v2" THEN X2(c.ks, MsbBit(k, 8 * ((n \div 8) % 16) + (n % 8)))
                            ELSE c.ks
       IN  [c.obj EXCEPT !.lfsr = ShiftLeftIn(c.obj.lfsr, b),
                         !.nfsr = ShiftLeftIn(c.obj.nfsr, b)]

\* the register load of _initialize
SoftLoad(v, o, k, nonce) ==
  [o EXCEPT
     !.lfsr = [n \in 1..128 |->
                 IF n <= 96 THEN MsbBit(nonce, n - 1)
                 ELSE IF v = "v2" THEN MsbBit(k, n - 1 - 96) ELSE 1],
     !.nfsr = [n \in 1..128 |-> MsbBit(k, n - 1)]]

\* the tag functions, kept abstract: a tag is the name of the function with
\* the key and the message it was computed from (v3 hashes mac_key + data)
MacTag(v, mk, a, c) ==
  IF v = "HMAC" THEN <<"hmac-sha256", mk, a \o c>>
  ELSE IF v = "v2" THEN <<"poly1305", mk, a \o c>>
  ELSE <<"sha256[:16]", mk \o c, <<>>>>

\* _get_poly1305 raises ValueError instead of returning a tag
MacRaises(v, mk, a, c) ==
  v = "v2" /\ (Len(mk) # 32 \/ (Len(c) = 0 /\ Len(a) = 0))

\* not hmac.compare_digest(tag, expected_tag) in GrainSoftHMAC.py and
\* GrainSoft_v2.py, computed_tag != tag in grainsoft_v3.py
\* TagMismatchNever is the faulty comparison that accepts every tag.
TagMismatchNever(t, expected) == FALSE
TagMismatch(t, expected) == t # expected

\* the exception a failed verification raises
MismatchError(v) == IF v = "v2" THEN "InvalidTag" ELSE "ValueError"

\* the exception a failed length check of __init__ raises (v3 uses assert)
CtorError(v) == IF v = "v3" THEN "AssertionError" ELSE "ValueError"

\* 32-byte and 16-byte MAC keys
MK32 == [n \in 1..32 |-> n]
MK16 == [n \in 1..16 |-> 64 + n]
MacKeys == {MK32, MK16}

\* the keys and IVs the variants are constructed with
SoftKeys == {K0, KShort}

\* reset of GrainSoftHMAC.py and GrainSoft_v2.py, _initialize of grainsoft_v3.py,
\* up to the warm-up loop
SoftReset(v, o) ==
  SoftLoad(v, [o EXCEPT !.ks = IF v = "HMAC" THEN <<>> ELSE o.ks], o.key, o.iv)

\* GrainSoft128AEAD(k, n) of module v
SoftConstruct(v, k, n) ==
  /\ vpc \in {"new", "error"}
  /\ variant' = v
  /\ vop' = "__init__" /\ varg' = NoArg /\ vi' = 0 /\ vloc' = NoLoc
  /\ IF CtorRaises(k, n)
       THEN /\ vpc' = "error"
            /\ soft' = NoSoft
            /\ vres' = [NoRes EXCEPT !.raised = CtorError(v)]
       ELSE /\ vpc' = "init"
            /\ soft' = SoftLoad(v, [NoSoft EXCEPT !.key = k, !.iv = n], k, n)
            /\ vres' = NoRes
  /\ UNCHANGED <<vsent, vcalls>>
  /\ UNCHANGED <<vars, tvars>>

\* one round of the warm-up loop of _initialize
SoftInitStep ==
  /\ vpc = "init" /\ vi < SoftRounds(variant)
  /\ soft' = SoftInitRound(variant, soft, soft.key, vi)
  /\ vi' = vi + 1
  /\ UNCHANGED <<variant, vpc, vop, varg, vloc, vres, vsent, vcalls>>
  /\ UNCHANGED <<vars, tvars>>

\* _initialize returns: to the caller of the constructor, or to the method
\* that goes on to generate the keystream
SoftInitDone ==
  /\ vpc = "init" /\ vi = SoftRounds(variant)
  /\ vpc' = IF vop = "__init__" THEN "idle" ELSE "ks"
  /\ vi' = 0
  /\ UNCHANGED <<variant, soft, vop, varg, vloc, vres, vsent, vcalls>>
  /\ UNCHANGED <<vars, tvars>>

\* GrainSoft_v2.encrypt_and_tag warns when self.iv is in self.used_ivs, and adds
\* it to the set afterwards.
\* IvReusedAfterAdd is the faulty test made after the IV has been added.
IvReusedAfterAdd(v, o) == v = "v2"
IvReused(v, o) == v = "v2" /\ o.iv \in o.used_ivs

\* encrypt_and_tag(p, mk, a) is entered.  GrainSoft_v2 warns when the IV is in
\* used_ivs and adds it; GrainSoftHMAC and GrainSoft_v2 reset; grainsoft_v3
\* (which takes no associated data) goes straight to the keystream
encrypt_and_tag(p, mk, a) ==
  /\ vpc = "idle" /\ vcalls < MaxSoftCalls
  /\ variant = "v3" => a = <<>>
  /\ vop' = "encrypt_and_tag"
  /\ varg' = [data |-> p, tag |-> <<>>, mac_key |-> mk, ad |-> a]
  /\ vres' = [NoRes EXCEPT !.warned = IvReused(variant, soft)]
  /\ soft' = IF variant = "v3" THEN soft
             ELSE SoftReset(variant,
                    [soft EXCEPT !.used_ivs = IF variant = "v2" THEN @ \cup {soft.iv}
                                                               ELSE @])
  /\ vpc' = IF variant = "v3" THEN "ks" ELSE "init"
  /\ vi' = 0 /\ vloc' = NoLoc
  /\ vcalls' = vcalls + 1
  /\ UNCHANGED <<variant, vsent>>
  /\ UNCHANGED <<vars, tvars>>

\* decrypt_and_verify(c, t, mk, a) is entered.  GrainSoftHMAC and GrainSoft_v2
\* compute the expected tag and compare before they reset; grainsoft_v3
\* re-initializes and compares after the keystream
\* decrypt_and_verify_reset_first is the faulty method that resets before it
\* compares the tags.
decrypt_and_verify_reset_first(c, t, mk, a) ==
  /\ vpc = "idle" /\ vcalls < MaxSoftCalls
  /\ variant = "v3" => a = <<>>
  /\ vop' = "decrypt_and_verify"
  /\ varg' = [data |-> c, tag |-> t, mac_key |-> mk, ad |-> a]
  /\ vi' = 0 /\ vloc' = NoLoc
  /\ vcalls' = vcalls + 1
  /\ IF variant = "v3"
       THEN /\ soft' = SoftReset(variant, soft)
            /\ vpc' = "init" /\ vres' = NoRes
       ELSE IF MacRaises(variant, mk, a, c)
         THEN /\ vres' = [NoRes EXCEPT !.raised = "ValueError"]
              /\ UNCHANGED <<soft, vpc>>
         ELSE IF TagMismatch(t, MacTag(variant, mk, a, c))
           THEN /\ vres' = [NoRes EXCEPT !.raised = MismatchError(variant)]
                /\ soft' = SoftReset(variant, soft)
                /\ UNCHANGED vpc
           ELSE /\ soft' = SoftReset(variant, soft)
                /\ vpc' = "init" /\ vres' = NoRes
  /\ UNCHANGED <<variant, vsent>>
  /\ UNCHANGED <<vars, tvars>>
decrypt_and_verify(c, t, mk, a) ==
  /\ vpc = "idle" /\ vcalls < MaxSoftCalls
  /\ variant = "v3" => a = <<>>
  /\ vop' = "decrypt_and_verify"
  /\ varg' = [data |-> c, tag |-> t, mac_key |-> mk, ad |-> a]
  /\ vi' = 0 /\ vloc' = NoLoc
  /\ vcalls' = vcalls + 1
  /\ IF variant = "v3"
       THEN /\ soft' = SoftReset(variant, soft)
            /\ vpc' = "init" /\ vres' = NoRes
       ELSE IF MacRaises(variant, mk, a, c)
         THEN /\ vres' = [NoRes EXCEPT !.raised = "ValueError"]
              /\ UNCHANGED <<soft, vpc>>
         ELSE IF TagMismatch(t, MacTag(variant, mk, a, c))
           THEN /\ vres' = [NoRes EXCEPT !.raised = MismatchError(variant)]
                /\ UNCHANGED <<soft, vpc>>
           ELSE /\ soft' = SoftReset(variant, soft)
                /\ vpc' = "init" /\ vres' = NoRes
  /\ UNCHANGED <<variant, vsent>>
  /\ UNCHANGED <<vars, tvars>>

\* one clock of _generate_keystream: the keystream bit is packed into the
\* current byte, most significant bit first (byte |= bit << (7 - j) in
\* GrainSoft_v2, (byte << 1) | bit in GrainSoftHMAC and in _bits_to_bytes of
\* grainsoft_v3).  The chunks of GrainSoft_v2.encrypt_and_tag continue one
\* keystream, so its chunk loop is this loop over all bytes.
SoftKsStep ==
  /\ vpc = "ks" /\ vi < 8 * Len(varg.data)
  /\ LET c == IF variant = "v3" THEN V3Round(soft) ELSE SoftClock(variant, soft)
         byte == 2 * vloc.byte + c.ks
     IN  /\ soft' = c.obj
         /\ vloc' = IF vi % 8 = 7
                      THEN [byte |-> 0, keystream |-> Append(vloc.keystream, byte)]
                      ELSE [vloc EXCEPT !.byte = byte]
  /\ vi' = vi + 1
  /\ UNCHANGED <<variant, vpc, vop, varg, vres, vsent, vcalls>>
  /\ UNCHANGED <<vars, tvars>>

\* the rest of the method after the keystream: the XOR, then the tag (in
\* encrypt_and_tag) or the comparison of grainsoft_v3 (in decrypt_and_verify)
SoftFinish(v, o, a, ks) ==
  LET out == XorBytes(a.data, ks)
      tag == MacTag(v, a.mac_key, a.ad, IF o = "encrypt_and_tag" THEN out ELSE a.data)
  IN  IF o = "encrypt_and_tag"
        THEN IF MacRaises(v, a.mac_key, a.ad, out)
               THEN [raised |-> "ValueError", ret |-> <<>>]
               ELSE [raised |-> "none", ret |-> <<out, tag>>]
        ELSE IF v = "v3" /\ TagMismatch(a.tag, tag)
               THEN [raised |-> "ValueError", ret |-> <<>>]
               ELSE [raised |-> "none", ret |-> <<out>>]

SoftReturn ==
  /\ vpc = "ks" /\ vi = 8 * Len(varg.data)
  /\ LET r == SoftFinish(variant, vop, varg, vloc.keystream)
     IN  /\ vres' = [vres EXCEPT !.raised = r.raised, !.ret = r.ret]
         /\ vsent' = IF vop = "encrypt_and_tag" /\ r.raised = "none"
                       THEN [set |-> TRUE, p |-> varg.data, c |-> r.ret[1],
                             t |-> r.ret[2], mac_key |-> varg.mac_key, ad |-> varg.ad]
                       ELSE vsent
  /\ vpc' = "idle" /\ vi' = 0 /\ vloc' = NoLoc
  /\ UNCHANGED <<variant, soft, vop, varg, vcalls>>
  /\ UNCHANGED <<vars, tvars>>

\* the (ciphertext, tag, mac key, associated data) a caller passes to
\* decrypt_and_verify: what its last encrypt_and_tag returned and was given, as
\* they are, or with one bit of the ciphertext or of the associated data
\* flipped, or with the tag of another key
VerifyArgs ==
  IF vsent.set
    THEN {<<vsent.c, vsent.t, vsent.mac_key, vsent.ad>>}
         \cup {<<c, vsent.t, vsent.mac_key, vsent.ad>> : c \in Tampered(vsent.c)}
         \cup {<<vsent.c, vsent.t, vsent.mac_key, a>> : a \in Tampered(vsent.ad)}
         \cup {<<vsent.c, MacTag(variant, mk, vsent.ad, vsent.c), vsent.mac_key, vsent.ad>> :
                 mk \in MacKeys}
    ELSE {}

SoftNext ==
  \/ \E v \in Variants, k \in SoftKeys, n \in IVInputs : SoftConstruct(v, k, n)
  \/ SoftInitStep
  \/ SoftInitDone
  \/ \E p \in Msgs, mk \in MacKeys, a \in ADs : encrypt_and_tag(p, mk, a)
  \/ \E x \in VerifyArgs : decrypt_and_verify(x[1], x[2], x[3], x[4])
  \/ SoftKsStep
  \/ SoftReturn

SpecVerify == Init /\ [][SoftNext]_<<vars, svars, tvars>>

\* ------------------------------------------------------- threaded servers
Servers == {"GrainAEADServer", "GrainSoftServer"}
\* cipher instances one behaviour constructs
MaxInst == 3
\* clocks one cipher operation makes
OpClocks == 2

\* the object a constructor call in handle_client of thread t evaluates to
\* when n instances exist: a new one.
\* CipherOfServer is the faulty server whose handlers all use one instance.
CipherOfServer(t, n) == 1
NewCipher(t, n) == n + 1

\* the heap after thread t has run the constructor on instance h
Constructed(hp, t, h) ==
  IF h > Len(hp)
    THEN Append(hp, [pos |-> 0, users |-> {t}])
    ELSE [hp EXCEPT ![h] = [pos |-> 0, users |-> @.users \cup {t}]]

\* GrainAEADServer() / GrainSoftServer(): the socket listens
ServerStart(s) ==
  /\ srv = "none"
  /\ srv' = s
  /\ UNCHANGED <<hpc, hcipher, hleft, heap>>
  /\ UNCHANGED <<vars, svars>>

\* start: accept returns and a thread runs handle_client.  GrainSoftServer's
\* handle_client constructs a cipher before its loop (server.py line 33)
Accept(t) ==
  /\ srv # "none" /\ hpc[t] = "none"
  /\ hpc' = [hpc EXCEPT ![t] = "recv"]
  /\ IF srv = "GrainSoftServer"
       THEN /\ Len(heap) < MaxInst
            /\ hcipher' = [hcipher EXCEPT ![t] = NewCipher(t, Len(heap))]
            /\ heap' = Constructed(heap, t, NewCipher(t, Len(heap)))
       ELSE UNCHANGED <<hcipher, heap>>
  /\ UNCHANGED <<srv, hleft>>
  /\ UNCHANGED <<vars, svars>>

\* a command is received: cipher is bound to a new instance and one of its
\* operations is entered
Command(t) ==
  /\ hpc[t] = "recv" /\ Len(heap) < MaxInst
  /\ hcipher' = [hcipher EXCEPT ![t] = NewCipher(t, Len(heap))]
  /\ heap' = Constructed(heap, t, NewCipher(t, Len(heap)))
  /\ hleft' = [hleft EXCEPT ![t] = OpClocks]
  /\ hpc' = [hpc EXCEPT ![t] = "op"]
  /\ UNCHANGED srv
  /\ UNCHANGED <<vars, svars>>

\* one clock of the operation thread t runs, on the instance its cipher names
HandlerClock(t) ==
  /\ hpc[t] = "op" /\ hleft[t] > 0
  /\ heap' = [heap EXCEPT ![hcipher[t]] =
                 [pos |-> @.pos + 1, users |-> @.users \cup {t}]]
  /\ hleft' = [hleft EXCEPT ![t] = @ - 1]
  /\ UNCHANGED <<srv, hpc, hcipher>>
  /\ UNCHANGED <<vars, svars>>

\* the operation returns and the response is sent
OpReturn(t) ==
  /\ hpc[t] = "op" /\ hleft[t] = 0
  /\ hpc' = [hpc EXCEPT ![t] = "recv"]
  /\ UNCHANGED <<srv, hcipher, hleft, heap>>
  /\ UNCHANGED <<vars, svars>>

\* recv returns nothing: the loop ends and the connection is closed
Close(t) ==
  /\ hpc[t] = "recv"
  /\ hpc' = [hpc EXCEPT ![t] = "closed"]
  /\ UNCHANGED <<srv, hcipher, hleft, heap>>
  /\ UNCHANGED <<vars, svars>>

ServerNext ==
  \/ \E s \in Servers : ServerStart(s)
  \/ \E t \in Handlers : Accept(t)
  \/ \E t \in Handlers : Command(t)
  \/ \E t \in Handlers : HandlerClock(t)
  \/ \E t \in Handlers : OpReturn(t)
  \/ \E t \in Handlers : Close(t)

SpecServer == Init /\ [][ServerNext]_<<vars, svars, tvars>>

\* ------------------------------------------------------------------ claims
\* the four registers of an object
RegsOf(o) == <<o.lfsr, o.nfsr, o.sr, o.accum>>

\* a decrypt or get_tag call has returned that was given exactly what the
\* last encrypt returned / one with a single bit of c or of ad flipped
Verified(o) ==
  pc = "idle" /\ op = o /\ enc.set /\ data = enc.c /\ ad = enc.ad
TamperedCall ==
  /\ pc = "idle" /\ op \in {"decrypt", "get_tag"} /\ enc.set
  /\ \/ data \in Tampered(enc.c) /\ ad = enc.ad
     \/ data = enc.c /\ ad \in Tampered(enc.ad)

\* C1: round trip.  When decrypt is given the ciphertext c of the last
\* encrypt(p, ad) and the same ad, the plaintext it returns is p, on the
\* instance that encrypted and on an instance built anew from the same key
\* and IV.
C1_RoundTrip ==
  Verified("decrypt") => /\ ret["cipher"].out = enc.p
                         /\ ret["fresh"].out = enc.p

C1_Witness ==
  /\ Verified("decrypt") /\ Len(enc.p) > 0 /\ enc.c # enc.p
  /\ ret["cipher"].out = enc.p /\ ret["fresh"].out = enc.p

\* C2: tamper detection.  When decrypt or get_tag is given the ciphertext or
\* the associated data of the last encrypt with one bit flipped, the tag it
\* returns differs from the tag t that encrypt returned.
C2_TamperDetected ==
  TamperedCall => ret["cipher"].tag # enc.t

\* C3: tag agreement.  When decrypt or get_tag is given the ciphertext and the
\* associated data of the last encrypt, the tag it returns is the tag that
\* encrypt returned.
C3_TagAgreement ==
  (Verified("decrypt") \/ Verified("get_tag")) =>
     /\ ret["cipher"].tag = enc.t
     /\ ret["fresh"].tag = enc.t

C3_Witness ==
  /\ Verified("get_tag") /\ Len(data) > 0 /\ Len(ad) > 0
  /\ ret["cipher"].tag = enc.t

\* C4: no state is carried across calls.  Whatever calls the long-lived
\* instance served before, a call returns on it what it returns on an instance
\* built anew from the same key and IV.
C4_NoCarryOver ==
  (pc = "idle" /\ op \in Ops) => ret["cipher"] = ret["fresh"]

C4_Witness ==
  /\ pc = "idle" /\ op = "decrypt" /\ ncalls >= 2 /\ Len(data) > 0
  /\ ret["cipher"] = ret["fresh"] /\ Len(ret["cipher"].tag) = 8

C6_Lengths ==
  (pc = "idle" /\ op = "encrypt") =>
     /\ Len(ret["cipher"].out) = Len(data)
     /\ Len(ret["cipher"].tag) = 8
     /\ \A k \in 1..8 : ret["cipher"].tag[k] \in 0..255

C6_Witness ==
  /\ pc = "idle" /\ op = "encrypt" /\ data = <<>>
  /\ ret["cipher"].out = <<>> /\ Len(ret["cipher"].tag) = 8

\* C7: in GrainSoftHMAC, GrainSoft_v2 and grainsoft_v3, a decrypt_and_verify
\* whose supplied tag differs from the tag of the supplied ciphertext (and
\* associated data) under the supplied MAC key has raised when it ends, and
\* has returned nothing.
C7_MismatchRejected ==
  (/\ vpc = "idle" /\ vop = "decrypt_and_verify"
   /\ varg.tag # MacTag(variant, varg.mac_key, varg.ad, varg.data))
    => vres.raised # "none" /\ vres.ret = <<>>

\* grainsoft_v3 has run the keystream over a tampered one-byte ciphertext and
\* then raised
C7_Witness ==
  /\ vpc = "idle" /\ vop = "decrypt_and_verify" /\ variant = "v3"
  /\ vsent.set /\ varg.data \in Tampered(vsent.c)
  /\ varg.tag = vsent.t /\ varg.tag # MacTag(variant, varg.mac_key, varg.ad, varg.data)
  /\ vres.raised = "ValueError" /\ vres.ret = <<>>

\* C8: determinism.  Through every round and clock of a call, the registers of
\* the long-lived instance equal those of an instance built anew from the same
\* key and IV that is given the same call, and the two return the same tag.
C8_Determinism ==
  /\ (pc \in {"init", "ad", "data", "final"} /\ op \in Ops) =>
        RegsOf(obj["cipher"]) = RegsOf(obj["fresh"])
  /\ (pc = "idle" /\ op \in Ops) =>
        /\ RegsOf(obj["cipher"]) = RegsOf(obj["fresh"])
        /\ ret["cipher"].tag = ret["fresh"].tag

C8_Witness ==
  /\ pc = "data" /\ op = "get_tag" /\ ncalls >= 2 /\ i = 8 * Len(data) /\ i > 0
  /\ obj["cipher"].accum # Zero128
  /\ RegsOf(obj["cipher"]) = RegsOf(obj["fresh"])

\* C9: phases are strictly ordered.  A call leaves the idle state only into
\* round 0 of the initialization with the registers freshly loaded from key and
\* IV; the 320 rounds, the associated data, the data and the 64 finalization
\* clocks follow in this order, each phase run to its end; and once a call has
\* returned, the registers stay as they are until that reset.
C9_PhaseOrder ==
  [][/\ (pc = "idle" /\ obj' # obj) =>
          /\ pc' = "init" /\ i' = 0
          /\ \A x \in Objs \ {"fresh"} :
               RegsOf(obj'[x]) = RegsOf(LoadRegisters(ZeroObj, KeyOf(x), IVOf(x)))
     /\ (pc = "idle" /\ pc' # "idle") => pc' = "init"
     /\ (pc = "init" /\ pc' # "init") =>
          i = 320 /\ pc' = (IF op = "__init__" THEN "idle" ELSE "ad")
     /\ (pc = "ad" /\ pc' # "ad") => i = 8 * Len(ad) /\ pc' = "data"
     /\ (pc = "data" /\ pc' # "data") => i = 8 * Len(data) /\ pc' = "final"
     /\ (pc = "final" /\ pc' # "final") => i = 64 /\ pc' = "idle"
    ]_vars

C9_Witness ==
  pc = "final" /\ i = 64 /\ ncalls >= 2 /\ Len(ad) > 0 /\ Len(data) > 0

\* C10: IV sensitivity.  Two instances with the same key whose IVs differ in
\* one bit encrypt the same non-empty plaintext to different ciphertexts (their
\* keystreams differ).
C10_IVSensitive ==
  (pc = "idle" /\ op = "encrypt" /\ Len(data) > 0 /\ flip \in IVFlips) =>
     ret["other"].out # ret["cipher"].out

\* the low 64 bits of a 128-bit register
Low64(r) == SubSeq(r, 1, 64)

\* C11: the tag is the accumulator.  When encrypt, decrypt or get_tag has
\* returned, the tag is the low 64 bits of accum, as the 64 finalization
\* clocks left it, packed little-endian into 8 bytes.
C11_TagIsAccum ==
  (pc = "idle" /\ op \in Ops) =>
     \A x \in Objs : ret[x].tag = Pack64(Low64(obj[x].accum))

\* C12: the tag depends on the lengths only.  Whenever a call has returned whose
\* data and associated data are as long as those of the last encrypt of the
\* same key and IV, its tag is the tag that encrypt returned, whatever the
\* method and whatever the contents, on the long-lived instance and on one
\* built anew.
C12_TagFromLengths ==
  (/\ pc = "idle" /\ op \in Ops
   /\ enc.set /\ enc.key = key /\ enc.iv = iv
   /\ Len(data) = Len(enc.p) /\ Len(ad) = Len(enc.ad))
    => ret["cipher"].tag = enc.t /\ ret["fresh"].tag = enc.t

\* decrypt was given associated data with one bit flipped, and a ciphertext
\* that differs from the plaintext of the encrypt, and returned the same tag
C12_Witness ==
  /\ pc = "idle" /\ op = "decrypt" /\ enc.set
  /\ ad \in Tampered(enc.ad) /\ Len(data) > 0 /\ data # enc.p
  /\ ret["cipher"].tag = enc.t

\* the feedback bits a clock computes from the registers of o
LfsrFb(o) == Parity(o.lfsr, LfsrFbTaps)
NfsrFb(o) ==
  (Parity(o.nfsr, NfsrFbTaps)
   + Cardinality({p \in nonlinear_pairs : Bit(o.nfsr, p[1]) = 1 /\ Bit(o.nfsr, p[2]) = 1})
   + Bit(o.lfsr, 0)) % 2

\* C13: initialization rounds feed the keystream bit back.  Every round of
\* initialize leaves each register shifted right by one, with the register's
\* feedback bit XOR the keystream bit of the round at bit 127.
C13_InitFeedback ==
  [][(pc = "init" /\ i' = i + 1) =>
       \A x \in Objs : Running(x) =>
          LET o == obj[x]
              ks == clock(o, TRUE).ks
          IN  /\ obj'[x].lfsr = ShiftRightIn(o.lfsr, X2(LfsrFb(o), ks))
              /\ obj'[x].nfsr = ShiftRightIn(o.nfsr, X2(NfsrFb(o), ks))
    ]_vars

\* the registers of object x as the load of initialize sets them
Loaded(x) == LoadRegisters(ZeroObj, KeyOf(x), IVOf(x))

\* C14: initialization keeps the load.  After every round of initialize, bits
\* 1..127 of the LFSR (elements 2..128 of the sequence) are the bits loaded
\* from IV and padding, bits 1..127 of the NFSR are the bits loaded from the
\* key, and bit 0 of the LFSR equals bit 0 of the NFSR.  Stated round by
\* round: round 0 leaves bits 1..127 as the load set them, and every later
\* round leaves them as the round before did.
C14_InitKeepsLoad ==
  [][(pc = "init" /\ i' = i + 1) =>
       \A x \in Objs : Running(x) =>
          LET was == IF i = 0 THEN Loaded(x) ELSE obj[x]
          IN  /\ SubSeq(obj'[x].lfsr, 2, 128) = SubSeq(was.lfsr, 2, 128)
              /\ SubSeq(obj'[x].nfsr, 2, 128) = SubSeq(was.nfsr, 2, 128)
              /\ Bit(obj'[x].lfsr, 0) = Bit(obj'[x].nfsr, 0)
    ]_vars

\* the 320 rounds of a call's reset are over and bit 0 of the LFSR is no
\* longer the bit that was loaded
C14_Witness ==
  /\ pc = "init" /\ i = 320 /\ op = "encrypt"
  /\ Bit(obj["fresh"].lfsr, 0) # Bit(Loaded("fresh").lfsr, 0)
  /\ obj["fresh"].lfsr # Zero128

\* C15: the register load.  Before the first round of initialize, LFSR bit n
\* (n < 96) is bit n mod 8, counted from the least significant, of IV byte
\* n div 8, LFSR bits 96..127 are all 1, and NFSR bit n is bit n mod 8 of key
\* byte n div 8.
C15_RegisterLoad ==
  (pc = "init" /\ i = 0) =>
     \A x \in Objs : Running(x) =>
        /\ \A n \in 0..95 :
             Bit(obj[x].lfsr, n) = ByteBit(IVOf(x)[(n \div 8) + 1], n % 8)
        /\ \A n \in 96..127 : Bit(obj[x].lfsr, n) = 1
        /\ \A n \in 0..127 :
             Bit(obj[x].nfsr, n) = ByteBit(KeyOf(x)[(n \div 8) + 1], n % 8)

\* C16: data bits XOR before the clock.  While encrypt or decrypt processes
\* the data, a data bit that is 1 XORs into accum the value sr holds before
\* the clock of that bit.
C16_XorBeforeAdvance ==
  [][(/\ pc = "data" /\ op \in {"encrypt", "decrypt"} /\ i' = i + 1
      /\ ByteBit(data[(i \div 8) + 1], i % 8) = 1) =>
       \A x \in Objs : obj'[x].accum = Xor128(obj[x].accum, obj[x].sr)
    ]_vars

\* C17: absorbing associated data.  Each step of the AD loop takes the next
\* bit of the associated data, least significant bit of each byte first; if it
\* is 1, accum is XORed with sr as it was before the step; and the registers
\* advance by exactly one clock, which shifts one pre-output bit into sr.  The
\* loop ends after 8 * len(ad) steps.
C17_AbsorbAD ==
  [][/\ (pc = "ad" /\ i' = i + 1) =>
          \A x \in Objs :
             LET o == obj[x]
                 n == obj'[x]
                 bit == ByteBit(ad[(i \div 8) + 1], i % 8)
             IN  /\ n.accum = IF bit = 1 THEN Xor128(o.accum, o.sr) ELSE o.accum
                 /\ n.lfsr = ShiftRightIn(o.lfsr, LfsrFb(o))
                 /\ n.nfsr = ShiftRightIn(o.nfsr, NfsrFb(o))
                 /\ n.sr = ShiftLeftIn(o.sr, get_pre_output(n.lfsr, n.nfsr))
     /\ (pc = "ad" /\ pc' # "ad") => i = 8 * Len(ad)
     /\ (pc = "ad" /\ pc' = "ad") => i' = i + 1
    ]_vars

\* get_tag has absorbed one byte of associated data with set and clear bits
C17_Witness ==
  /\ pc = "ad" /\ op = "get_tag" /\ Len(ad) = 1 /\ i = 8
  /\ \E j \in 0..7 : ByteBit(ad[1], j) = 1
  /\ \E j \in 0..7 : ByteBit(ad[1], j) = 0
  /\ obj["cipher"].accum # Zero128

\* C18: finalization.  _finalize runs exactly 64 clocks; none of them changes
\* sr; and each XORs sr into accum exactly when the bit it outputs (bit i of
\* the tag) is 1.
C18_Finalize ==
  [][/\ (pc = "final" /\ i' = i + 1) =>
          \A x \in Objs :
             LET o == obj[x]
                 n == obj'[x]
                 bit == X2(compute_h(n.lfsr, n.nfsr), Bit(n.nfsr, 0))
             IN  /\ n.lfsr = ShiftRightIn(o.lfsr, LfsrFb(o))
                 /\ n.nfsr = ShiftRightIn(o.nfsr, NfsrFb(o))
                 /\ n.sr = o.sr
                 /\ n.tag_bits[i + 1] = bit
                 /\ n.accum = IF bit = 1 THEN Xor128(o.accum, o.sr) ELSE o.accum
     /\ (pc = "final" /\ pc' # "final") => i = 64
     /\ (pc = "final" /\ pc' = "final") => i' = i + 1
     /\ (pc # "final" /\ pc' = "final") => i' = 0
    ]_vars

\* the 64 clocks of a decrypt are over, with output bits of both values and an
\* sr that is not zero
C18_Witness ==
  /\ pc = "final" /\ op = "decrypt" /\ i = 64
  /\ \E j \in 1..64 : obj["cipher"].tag_bits[j] = 1
  /\ \E j \in 1..64 : obj["cipher"].tag_bits[j] = 0
  /\ obj["cipher"].sr # Zero128

\* C19: sr during initialization.  initialize starts with sr = 0 and runs
\* exactly 320 rounds; rounds 0..191 leave sr at 0, and each of the rounds
\* 192..319 shifts exactly one pre-output bit into sr, 128 bits in all.
C19_InitSr ==
  [][/\ (pc # "init" /\ pc' = "init") =>
          i' = 0 /\ \A x \in Objs : obj'[x].sr = Zero128
     /\ (pc = "init" /\ i' = i + 1) =>
          \A x \in Objs : Running(x) =>
             LET o == obj[x]
                 n == obj'[x]
             IN  IF i < 192
                   THEN n.sr = Zero128
                   ELSE n.sr = ShiftLeftIn(o.sr, get_pre_output(n.lfsr, n.nfsr))
     /\ (pc = "init" /\ pc' = "init") => i' = i + 1
     /\ (pc = "init" /\ pc' # "init") => i = 320
    ]_vars

\* the 320 rounds of the reset of a get_tag are over and sr is not zero
C19_Witness ==
  /\ pc = "init" /\ op = "get_tag" /\ i = 320
  /\ obj["cipher"].sr # Zero128 /\ obj["fresh"].sr # Zero128

\* C20: the normal clock.  Every clock of the AD loop, the data loop and
\* _finalize leaves each register shifted right by one with its feedback bit,
\* computed from the registers before the shift, at bit 127; the bit it
\* returns (packed into the keystream byte by encrypt and decrypt, stored as
\* tag bit i by _finalize) is h XOR NFSR bit 0, both read after the shift.
C20_NormalClock ==
  [][(pc \in {"ad", "data", "final"} /\ i' = i + 1) =>
       \A x \in Objs :
          LET o == obj[x]
              n == obj'[x]
              ks == X2(compute_h(n.lfsr, n.nfsr), Bit(n.nfsr, 0))
          IN  /\ SubSeq(n.lfsr, 1, 127) = SubSeq(o.lfsr, 2, 128)
              /\ Bit(n.lfsr, 127) = LfsrFb(o)
              /\ SubSeq(n.nfsr, 1, 127) = SubSeq(o.nfsr, 2, 128)
              /\ Bit(n.nfsr, 127) = NfsrFb(o)
              /\ pc = "final" => n.tag_bits[i + 1] = ks
              /\ (pc = "data" /\ op # "get_tag") =>
                   IF i % 8 = 7
                     THEN n.ks_bytes = Append(o.ks_bytes, 2 * o.byte + ks)
                     ELSE n.byte = 2 * o.byte + ks
    ]_vars

\* encrypt has generated a keystream byte with bits of both values
C20_Witness ==
  /\ pc = "data" /\ op = "encrypt" /\ Len(data) = 1 /\ i = 8
  /\ Len(obj["cipher"].ks_bytes) = 1
  /\ obj["cipher"].ks_bytes[1] \notin {0, 255}

\* the 128-bit values: 0 .. 2^128 - 1 as sequences of exactly 128 bits
Width128 == [1..128 -> {0, 1}]

\* C21: the width invariant.  In every state, through initialization, AD
\* absorption, data processing and finalization, lfsr, nfsr, sr and accum of
\* every instance are 128-bit values.
C21_Width ==
  \A x \in Objs :
     /\ obj[x].lfsr \in Width128 /\ obj[x].nfsr \in Width128
     /\ obj[x].sr \in Width128 /\ obj[x].accum \in Width128

\* a call with data and associated data is in its last finalization clock,
\* after left shifts have pushed bits of sr off the top and zeros in at the
\* bottom
C21_Witness ==
  /\ pc = "final" /\ i = 63 /\ Len(ad) > 0 /\ Len(data) > 0
  /\ Bit(obj["cipher"].sr, 127) = 1
  /\ \E n \in 0..15 : Bit(obj["cipher"].sr, n) = 0
  /\ obj["cipher"].accum # Zero128

\* C22: what gates the accumulator.  In the data loop of encrypt and of decrypt
\* the accumulator changes, by an XOR with sr, exactly on the set bits of the
\* method's own argument, each byte's bits taken least significant first: the
\* plaintext in encrypt, the ciphertext in decrypt.
C22_GatedByArgument ==
  [][(pc = "data" /\ op \in {"encrypt", "decrypt"} /\ i' = i + 1) =>
       \A x \in Objs :
          obj'[x].accum = IF ByteBit(data[(i \div 8) + 1], i % 8) = 1
                            THEN Xor128(obj[x].accum, obj'[x].sr)
                            ELSE obj[x].accum
    ]_vars

\* decrypt(c, ad) has returned for the (c, t) of the last encrypt(p, ad), and
\* its accum is not the accum that encrypt left
C22_Witness ==
  /\ Verified("decrypt") /\ Len(data) > 0 /\ data # enc.p
  /\ ret["cipher"].out = enc.p
  /\ obj["cipher"].accum # enc.accum

\* C23: bit 0 of key byte 0 and bit 0 of IV byte 0 influence no output.  An
\* instance whose IV differs from that of "cipher" only in that IV bit
\* (flip = 0), or whose key differs only in that key bit (flip = 96), returns
\* from every encrypt, decrypt and get_tag the data and the tag "cipher"
\* returns.
C23_Bit0NoInfluence ==
  (pc = "idle" /\ op \in Ops /\ flip \in {0, 96}) => ret["other"] = ret["cipher"]

\* decrypt has returned a plaintext and a tag on two instances whose keys
\* differ in bit 0 of byte 0
C23_Witness ==
  /\ pc = "idle" /\ op = "decrypt" /\ flip = 96 /\ Len(data) > 0
  /\ KeyOf("other") # KeyOf("cipher") /\ IVOf("other") = IVOf("cipher")
  /\ Len(ret["cipher"].out) = Len(data) /\ Len(ret["cipher"].tag) = 8
  /\ ret["other"] = ret["cipher"]

\* ------------------------------------------------ construction, more keys
\* a key of sixteen zero bytes and one of sixteen 0xff bytes
KZero == [n \in 1..16 |-> 0]
KOnes == [n \in 1..16 |-> 255]
InitKeys == {K0, K1, KZero, KOnes}
\* the flips of Spec and IV bit 8, a tap of the pre-output
InitFlips == IVFlips \cup KeyFlips \cup {8}

\* the constructor alone (load and the 320 rounds of initialize), over more
\* keys than the call sequences of Spec are run with
InitNext ==
  \/ \E k \in InitKeys, v \in {IV0}, f \in InitFlips : Construct(k, v, f)
  \/ InitStep
  \/ InitDone

SpecInit == Init /\ [][InitNext]_<<vars, svars, tvars>>

Ones128 == [n \in 1..128 |-> 1]

\* C24: when initialize returns, sr is 0 or 2^128 - 1: the 128 pre-output bits
\* shifted in by rounds 192..319 are all equal, and within those rounds every
\* bit already shifted in equals the one shifted in first.
C24_SrAllEqual ==
  (pc = "init" /\ i > 192) =>
     \A x \in Objs : Running(x) =>
        /\ \A n \in 0..(i - 193) : Bit(obj[x].sr, n) = Bit(obj[x].sr, 0)
        /\ i = 320 => obj[x].sr \in {Zero128, Ones128}

\* initialize is about to return with sr = 0 in one instance and with
\* sr = 2^128 - 1 in the instance built from the input with one bit flipped
C24_Witness ==
  /\ pc = "init" /\ i = 320 /\ op = "__init__"
  /\ obj["cipher"].sr = Zero128 /\ obj["other"].sr = Ones128

\* C25: the keystream depends on key, IV, the length of the associated data
\* and the byte position only.  The bytes an encrypt or decrypt returns are
\* its data XOR the keystream bytes K of the call, and K is the K of the last
\* encrypt of the same key and IV (its ciphertext XOR its plaintext) whenever
\* the two calls were given data of the same length and associated data of
\* the same length, whatever the contents of either.
C25_KeystreamByLength ==
  [][(pc = "final" /\ pc' = "idle" /\ op \in {"encrypt", "decrypt"}) =>
       \A x \in {"cipher", "fresh"} :
          /\ ret'[x].out = XorBytes(data, obj[x].ks_bytes)
          /\ (enc.set /\ enc.key = key /\ enc.iv = iv
                /\ Len(ad) = Len(enc.ad) /\ Len(data) = Len(enc.p)) =>
               obj[x].ks_bytes = XorBytes(enc.c, enc.p)
    ]_vars

\* a decrypt has returned that was given the ciphertext of the last encrypt
\* and associated data of the same length with one bit flipped, and the bytes
\* it returned are the plaintext of that encrypt
C25_Witness ==
  /\ pc = "idle" /\ op = "decrypt" /\ enc.set
  /\ Len(data) > 0 /\ data = enc.c
  /\ Len(ad) > 0 /\ ad # enc.ad /\ Len(ad) = Len(enc.ad)
  /\ ret["cipher"].out = enc.p

\* C26: round trip on grainsoft_v3 at every call.  When decrypt_and_verify is
\* given the ciphertext and tag the last encrypt_and_tag returned and the MAC
\* key of that call, it returns the plaintext of that call without raising,
\* whatever calls the instance served before that encrypt_and_tag.
C26_RoundTripEveryCall ==
  (/\ vpc = "idle" /\ vop = "decrypt_and_verify" /\ variant = "v3" /\ vsent.set
   /\ varg.data = vsent.c /\ varg.tag = vsent.t /\ varg.mac_key = vsent.mac_key)
    => vres.raised = "none" /\ vres.ret = <<vsent.p>>

\* C27: no cipher instance is shared between handler threads.  Under every
\* interleaving of the handlers of GrainAEADServer and of GrainSoftServer, the
\* registers of an instance have been read or written by at most one thread,
\* no two threads' cipher variables name the same instance, and an operation
\* that returns has seen exactly its own clocks on its instance.
C27_NoSharedInstance ==
  /\ \A h \in 1..Len(heap) : Cardinality(heap[h].users) <= 1
  /\ \A t \in Handlers, u \in Handlers :
        (t # u /\ hcipher[t] # 0) => hcipher[t] # hcipher[u]
  /\ \A t \in Handlers :
        hpc[t] = "op" =>
           /\ heap[hcipher[t]].users = {t}
           /\ heap[hcipher[t]].pos = OpClocks - hleft[t]

\* two handler threads are inside an operation at the same time, each past
\* the first clock on its own instance
C27_Witness ==
  /\ hpc[1] = "op" /\ hpc[2] = "op"
  /\ hcipher[1] # hcipher[2]
  /\ heap[hcipher[1]].pos > 0 /\ heap[hcipher[2]].pos > 0

C29_MismatchKeepsState ==
  [][(/\ vpc = "idle" /\ vcalls' = vcalls + 1 /\ vop' = "decrypt_and_verify"
      /\ variant \in {"HMAC", "v2"}
      /\ ~MacRaises(variant, varg'.mac_key, varg'.ad, varg'.data)
      /\ varg'.tag # MacTag(variant, varg'.mac_key, varg'.ad, varg'.data)) =>
       /\ vpc' = "idle" /\ vres'.raised = MismatchError(variant)
       /\ soft'.lfsr = soft.lfsr /\ soft'.nfsr = soft.nfsr
    ]_svars

\* GrainSoft_v2 has rejected a tampered ciphertext, and its registers are
\* those the keystream of the encrypt_and_tag before left, not those of a reset
C29_Witness ==
  /\ vpc = "idle" /\ vop = "decrypt_and_verify" /\ variant = "v2"
  /\ vres.raised = "InvalidTag" /\ Len(vsent.p) > 0
  /\ varg.data \in Tampered(vsent.c)
  /\ soft.lfsr # SoftReset(variant, soft).lfsr

\* C30: the skip-auth flag.  An instance has _skip_auth exactly while its
\* _finalize runs, so it is absent whenever encrypt, decrypt or get_tag has
\* returned; and every clock of the AD loop and of the data loop, in the
\* first operation and in those after it, shifts the pre-output bit into sr.
C30_SkipOnlyInFinalize ==
  [][/\ \A x \in Objs : obj'[x].skip <=> pc' = "final"
     /\ (pc \in {"ad", "data"} /\ i' = i + 1) =>
          \A x \in Objs :
             obj'[x].sr = ShiftLeftIn(obj[x].sr,
                                      get_pre_output(obj'[x].lfsr, obj'[x].nfsr))
    ]_vars

\* the second operation on the instance, a decrypt with associated data, has
\* returned: the flag is absent and the clocks of the operation have changed
\* sr from what initialize left
C30_Witness ==
  /\ pc = "idle" /\ op = "decrypt" /\ ncalls = 2
  /\ Len(ad) > 0 /\ Len(data) > 0
  /\ ~obj["cipher"].skip
  /\ obj["cipher"].sr # pristine.sr

====
